---- MODULE Spec2Model ----
(***************************************************************************)
(* The yuri lexer (yuri-lexer/src/lib.rs): next_token, a nom parser over a *)
(* nom_locate LocatedSpan, and the scan obtained by threading the span it  *)
(* returns through successive calls.                                       *)
(*                                                                         *)
(* Characters are their code points; a text is a sequence of code points.  *)
(***************************************************************************)
EXTENDS Integers, Sequences, FiniteSets, TLC

\* ---------------------------------------------------------------- bounds
\* longest input over CoreAlphabet, longest input over Alphabet, most calls
MaxLen == 4
MaxShortLen == 2
MaxCalls == 7

\* ------------------------------------------------------------ characters
Space == 32
Tab == 9
Newline == 10
CarriageReturn == 13

\* "a\nb"
ExampleNewline == <<97, 10, 98>>
\* "abc123 + (x)"
ExampleExpr == <<97, 98, 99, 49, 50, 51, 32, 43, 32, 40, 120, 41>>
\* "1abc"
ExampleDigit == <<49, 97, 98, 99>>

\* space tab \n \r, a, 1, +, ;
CoreAlphabet == {32, 9, 10, 13, 97, 49, 43, 59}

\* CoreAlphabet and Z, ( ) { } : = - * /, #
Alphabet ==
    CoreAlphabet \cup {90, 40, 41, 123, 125, 58, 61, 45, 42, 47, 35}

RECURSIVE TextsOfLen(_, _)
TextsOfLen(chars, n) ==
    IF n = 0 THEN {<<>>}
    ELSE {Append(t, c) : t \in TextsOfLen(chars, n - 1), c \in chars}

Inputs ==
    UNION {TextsOfLen(CoreAlphabet, n) : n \in 0..MaxLen}
        \cup UNION {TextsOfLen(Alphabet, n) : n \in 0..MaxShortLen}
        \cup {ExampleNewline, ExampleExpr, ExampleDigit}

\* ------------------------------------------------- nom character classes
\* multispace0 without the carriage return
is_space_no_cr(c) == c = Space \/ c = Tab \/ c = Newline

\* nom::character::complete::multispace0 accepts ' ', '\t', '\r', '\n'
is_space(c) == c = Space \/ c = Tab \/ c = CarriageReturn \/ c = Newline

\* is_alpha that also takes digits
is_alpha_or_digit(c) ==
    (c >= 65 /\ c <= 90) \/ (c >= 97 /\ c <= 122) \/ (c >= 48 /\ c <= 57)

\* AsChar::is_alpha for char: ASCII letters
is_alpha(c) == (c >= 65 /\ c <= 90) \/ (c >= 97 /\ c <= 122)

\* AsChar::is_dec_digit
is_dec_digit(c) == c >= 48 /\ c <= 57

\* AsChar::is_alphanum
is_alphanum(c) == is_alpha(c) \/ is_dec_digit(c)

\* ------------------------------------------------------------ LocatedSpan
\* LocatedSpan::new: offset 0, line 1, the whole text as fragment
new_span(text) == [offset |-> 0, line |-> 1, fragment |-> text]

RECURSIVE count_newlines(_)
count_newlines(text) ==
    IF text = <<>> THEN 0
    ELSE (IF Head(text) = Newline THEN 1 ELSE 0) + count_newlines(Tail(text))

\* the first n characters of the span, at the span's own offset and line
take(s, n) ==
    [offset |-> s.offset, line |-> s.line, fragment |-> SubSeq(s.fragment, 1, n)]

\* skip that leaves the line alone
skip_same_line(s, n) ==
    [offset |-> s.offset + n,
     line |-> s.line,
     fragment |-> SubSeq(s.fragment, n + 1, Len(s.fragment))]

\* the span after its first n characters: the offset advances by n and the
\* line by the number of newlines among the consumed characters
skip(s, n) ==
    [offset |-> s.offset + n,
     line |-> s.line + count_newlines(SubSeq(s.fragment, 1, n)),
     fragment |-> SubSeq(s.fragment, n + 1, Len(s.fragment))]

\* LocatedSpan::get_column: 1 + the distance from the character after the
\* last newline before the span (or from the start of the text) to the span
get_column(text, s) ==
    LET before == {i \in 1..s.offset : text[i] = Newline}
        last == IF before = {} THEN 0
                ELSE CHOOSE i \in before : \A j \in before : j <= i
    IN s.offset - last + 1

\* --------------------------------------------------------------- IResult
Ok(rest, out) == [tag |-> "Ok", rest |-> rest, out |-> out]
Err(input, code) == [tag |-> "Err", input |-> input, code |-> code]

\* length of the longest prefix of the text whose characters all pass the
\* test; matches[i] tells whether the i-th character passes
split_at_position(matches) ==
    CHOOSE n \in 0..Len(matches) :
        /\ \A i \in 1..n : matches[i]
        /\ (n = Len(matches) \/ ~matches[n + 1])

multispace0(s) ==
    LET n == split_at_position([i \in 1..Len(s.fragment) |-> is_space(s.fragment[i])])
    IN Ok(skip(s, n), take(s, n))

\* alpha1 that accepts an empty run
alpha1_allow_empty(s) ==
    LET n == split_at_position([i \in 1..Len(s.fragment) |-> is_alpha(s.fragment[i])])
    IN Ok(skip(s, n), take(s, n))

alpha1(s) ==
    LET n == split_at_position([i \in 1..Len(s.fragment) |-> is_alpha(s.fragment[i])])
    IN IF n = 0 THEN Err(s, "Alpha") ELSE Ok(skip(s, n), take(s, n))

\* alphanumeric0 that stops at the first digit
alphanumeric0_letters_only(s) ==
    LET n == split_at_position([i \in 1..Len(s.fragment) |-> is_alpha(s.fragment[i])])
    IN Ok(skip(s, n), take(s, n))

alphanumeric0(s) ==
    LET n == split_at_position([i \in 1..Len(s.fragment) |-> is_alphanum(s.fragment[i])])
    IN Ok(skip(s, n), take(s, n))

\* nom::bytes::complete::tag
tag(t, s) ==
    IF Len(s.fragment) >= Len(t) /\ SubSeq(s.fragment, 1, Len(t)) = t
    THEN Ok(skip(s, Len(t)), take(s, Len(t)))
    ELSE Err(s, "Tag")

\* ---------------------------------------------------------------- tokens
Token(kind, span) == [kind |-> kind, span |-> span]

\* token_symbol!: tag, mapped to a Token of the given kind
token_symbol(t, kind, s) ==
    LET r == tag(t, s)
    IN IF r.tag = "Ok" THEN Ok(r.rest, Token(kind, r.out)) ELSE r

\* the table with the kinds of '+' and '-' exchanged
Symbols_swapped ==
    << <<40, "ParenOpen">>, <<41, "ParenClose">>,
       <<123, "BraceOpen">>, <<125, "BraceClose">>,
       <<58, "Colon">>, <<61, "Equal">>,
       <<43, "Minus">>, <<45, "Plus">>,
       <<42, "Star">>, <<47, "Slash">> >>

\* the ten token_symbol! instances, in the order alt lists them
Symbols ==
    << <<40, "ParenOpen">>, <<41, "ParenClose">>,
       <<123, "BraceOpen">>, <<125, "BraceClose">>,
       <<58, "Colon">>, <<61, "Equal">>,
       <<43, "Plus">>, <<45, "Minus">>,
       <<42, "Star">>, <<47, "Slash">> >>

\* recognize(tuple((alpha1, alphanumeric0))), mapped to an Ident token
token_ident(s) ==
    LET r1 == alpha1(s)
    IN IF r1.tag = "Err" THEN r1
       ELSE LET r2 == alphanumeric0(r1.rest)
                n == r2.rest.offset - s.offset
            IN Ok(r2.rest, Token("Ident", take(s, n)))

\* the i-th alternative of alt
alternative(i, s) ==
    IF i <= Len(Symbols)
    THEN token_symbol(<<Symbols[i][1]>>, Symbols[i][2], s)
    ELSE token_ident(s)

NumAlternatives == Len(Symbols) + 1

\* alt: the first alternative that succeeds; the last one's error otherwise
RECURSIVE alt_from(_, _)
alt_from(i, s) ==
    LET r == alternative(i, s)
    IN IF r.tag = "Ok" \/ i = NumAlternatives THEN r ELSE alt_from(i + 1, s)

alt(s) == alt_from(1, s)

\* next_token whose error is reported at the span it was called with
next_token_error_at_start(s) ==
    LET r1 == multispace0(s)
        r2 == alt(r1.rest)
    IN IF r2.tag = "Err" THEN Err(s, r2.code)
       ELSE Ok(multispace0(r2.rest).rest, r2.out)

\* next_token that leaves the whitespace after the token unread
next_token_no_trailing(s) ==
    LET r1 == multispace0(s)
        r2 == alt(r1.rest)
    IN IF r2.tag = "Err" THEN r2
       ELSE Ok(r2.rest, r2.out)

\* delimited(multispace0, alt, multispace0)
next_token(s) ==
    LET r1 == multispace0(s)
        r2 == alt(r1.rest)
    IN IF r2.tag = "Err" THEN r2
       ELSE Ok(multispace0(r2.rest).rest, r2.out)

\* the Scanner's view of a call's result: a token, nothing when no input is
\* left after the trivia, an unrecognized character otherwise
Scanner_next(r) ==
    IF r.tag = "Ok" THEN "Token"
    ELSE IF r.tag = "Err" /\ r.input.fragment = <<>> THEN "Nothing"
    ELSE IF r.tag = "Err" THEN "UnrecognizedCharacter"
    ELSE "NotCalled"

\* ------------------------------------------------------------------ scan
VARIABLES input, cursor, tokens, result, calls

vars == <<input, cursor, tokens, result, calls>>

NoResult == [tag |-> "None"]

Init ==
    /\ input \in Inputs
    /\ cursor = new_span(input)
    /\ tokens = <<>>
    /\ result = NoResult
    /\ calls = 0

\* a call that recognizes a token: the scan goes on from the remaining span
next_token_ok ==
    /\ calls < MaxCalls
    /\ LET r == next_token(cursor)
       IN /\ r.tag = "Ok"
          /\ result' = r
          /\ cursor' = r.rest
          /\ tokens' = Append(tokens, r.out)
    /\ calls' = calls + 1
    /\ UNCHANGED input

\* a failing call after which the scan starts over
next_token_err_rewind ==
    /\ calls < MaxCalls
    /\ LET r == next_token(cursor)
       IN /\ r.tag = "Err"
          /\ result' = r
          /\ cursor' = new_span(input)
    /\ calls' = calls + 1
    /\ UNCHANGED <<input, tokens>>

\* a call that recognizes nothing: the only span handed back is the error's
next_token_err ==
    /\ calls < MaxCalls
    /\ LET r == next_token(cursor)
       IN /\ r.tag = "Err"
          /\ result' = r
          /\ cursor' = r.input
    /\ calls' = calls + 1
    /\ UNCHANGED <<input, tokens>>

Next == next_token_ok \/ next_token_err

Spec == Init /\ [][Next]_vars

\* ------------------------------------------------- vocabulary of the claims
WhitespaceChars == {32, 9, 10, 13}
LetterChars == (65..90) \cup (97..122)
DigitChars == 48..57
SymbolChars == {40, 41, 123, 125, 58, 61, 43, 45, 42, 47}

SymbolKind(c) ==
    CASE c = 40 -> "ParenOpen" [] c = 41 -> "ParenClose"
      [] c = 123 -> "BraceOpen" [] c = 125 -> "BraceClose"
      [] c = 58 -> "Colon" [] c = 61 -> "Equal"
      [] c = 43 -> "Plus" [] c = 45 -> "Minus"
      [] c = 42 -> "Star" [] c = 47 -> "Slash"
      [] OTHER -> "?"

\* index in the input of the first non-whitespace character after offset o,
\* 0 when only whitespace (or nothing) remains
FirstNonWs(o) ==
    LET S == {p \in (o + 1)..Len(input) : input[p] \notin WhitespaceChars}
    IN IF S = {} THEN 0 ELSE CHOOSE p \in S : \A q \in S : p <= q

\* line and column of the character at index p of the input, by counting
LineOf(p) == 1 + Cardinality({i \in 1..(p - 1) : input[i] = 10})
ColumnOf(p) ==
    1 + Cardinality({i \in 1..(p - 1) : \A j \in i..(p - 1) : input[j] # 10})

RECURSIVE ConcatTexts(_)
ConcatTexts(ts) ==
    IF ts = <<>> THEN <<>> ELSE Head(ts).span.fragment \o ConcatTexts(Tail(ts))

RECURSIVE WithoutWhitespace(_)
WithoutWhitespace(text) ==
    IF text = <<>> THEN <<>>
    ELSE IF Head(text) \in WhitespaceChars THEN WithoutWhitespace(Tail(text))
    ELSE <<Head(text)>> \o WithoutWhitespace(Tail(text))

Positions ==
    [k \in 1..Len(tokens) |->
        <<tokens[k].span.line, get_column(input, tokens[k].span)>>]

Called == calls' = calls + 1

\* C1: on an input made only of whitespace (the empty input included) every
\* call, the first one too, returns nothing: no token is emitted and no
\* unrecognized character is reported.
C1_WhitespaceOnlyIsEmpty ==
    ((\A i \in 1..Len(input) : input[i] \in WhitespaceChars) /\ calls >= 1)
        => (Scanner_next(result) = "Nothing" /\ tokens = <<>>)

C1_Witness ==
    /\ Len(input) = 3
    /\ {input[i] : i \in 1..3} = {13, 10, 9}
    /\ calls = 1
    /\ Scanner_next(result) = "Nothing"

\* C2: when the first non-whitespace character at the cursor is neither a
\* letter nor one of the ten symbols, the call fails at that very character
\* and emits no token.
C2_UnrecognizedIsError ==
    [][(Called /\ FirstNonWs(cursor.offset) # 0
          /\ input[FirstNonWs(cursor.offset)] \notin (LetterChars \cup SymbolChars))
        => (/\ result'.tag = "Err"
            /\ tokens' = tokens
            /\ result'.input.offset = FirstNonWs(cursor.offset) - 1
            /\ result'.input.fragment # <<>>
            /\ Head(result'.input.fragment) = input[FirstNonWs(cursor.offset)])]_vars

C2_Witness ==
    /\ Len(tokens) = 1
    /\ result.tag = "Err"
    /\ result.input.fragment = <<59>>
    /\ input[2] = 32

\* C3: a failure on an unrecognized character carries that character and its
\* line and column counted from the start of the input, leading whitespace
\* included, and leaves the cursor at that character; on "1abc" it is '1' at
\* line 1, column 1.
C3_ErrorPosition ==
    [][(Called /\ FirstNonWs(cursor.offset) # 0 /\ result'.tag = "Err")
        => (/\ Head(result'.input.fragment) = input[FirstNonWs(cursor.offset)]
            /\ result'.input.line = LineOf(FirstNonWs(cursor.offset))
            /\ get_column(input, result'.input) = ColumnOf(FirstNonWs(cursor.offset))
            /\ cursor' = result'.input
            /\ cursor'.offset = FirstNonWs(cursor.offset) - 1
            /\ (input = ExampleDigit
                  => /\ Head(result'.input.fragment) = 49
                     /\ result'.input.line = 1
                     /\ get_column(input, result'.input) = 1))]_vars

C3_Witness ==
    /\ input = <<10, 32, 49>>
    /\ result.tag = "Err"
    /\ result.input.line = 2
    /\ get_column(input, result.input) = 2

\* C4: every emitted token sits in the input at its recorded offset, and its
\* line and column are those of its first character counted from the start of
\* the input; "a\nb" gives 1:1 and 2:1, "abc123 + (x)" gives 1:1, 1:8, 1:10,
\* 1:11, 1:12.
C4_TokenPositions ==
    /\ \A k \in 1..Len(tokens) :
        LET sp == tokens[k].span
        IN /\ SubSeq(input, sp.offset + 1, sp.offset + Len(sp.fragment)) = sp.fragment
           /\ sp.line = LineOf(sp.offset + 1)
           /\ get_column(input, sp) = ColumnOf(sp.offset + 1)
    /\ (input = ExampleNewline /\ result.tag = "Err")
          => Positions = << <<1, 1>>, <<2, 1>> >>
    /\ (input = ExampleExpr /\ result.tag = "Err")
          => Positions = << <<1, 1>>, <<1, 8>>, <<1, 10>>, <<1, 11>>, <<1, 12>> >>

C4_Witness ==
    /\ input = <<97, 10, 43>>
    /\ Len(tokens) = 2
    /\ Positions = << <<1, 1>>, <<2, 1>> >>

\* C5: when the first non-whitespace character at the cursor is a letter, the
\* call emits exactly one Ident token: it starts at that letter and its text
\* is the maximal run of letters and digits from there.
C5_IdentifierMaximalRun ==
    [][(Called /\ FirstNonWs(cursor.offset) # 0
          /\ input[FirstNonWs(cursor.offset)] \in LetterChars)
        => (/\ result'.tag = "Ok"
            /\ tokens' = Append(tokens, result'.out)
            /\ LET t == result'.out
                   p == FirstNonWs(cursor.offset)
                   n == Len(t.span.fragment)
               IN /\ t.kind = "Ident"
                  /\ t.span.offset = p - 1
                  /\ n >= 1
                  /\ t.span.fragment = SubSeq(input, p, p + n - 1)
                  /\ \A i \in 1..n : t.span.fragment[i] \in (LetterChars \cup DigitChars)
                  /\ (p + n <= Len(input)
                        => input[p + n] \notin (LetterChars \cup DigitChars)))]_vars

C5_Witness ==
    /\ Len(tokens) = 1
    /\ tokens[1].kind = "Ident"
    /\ tokens[1].span.fragment = <<97, 49>>
    /\ Len(input) = 3
    /\ input[3] = 43

\* C6: when the first non-whitespace character at the cursor is one of the
\* ten symbols, the call emits exactly one token of length 1 whose text is
\* that character and whose kind is the symbol's, whatever follows; and at
\* most one alternative of alt matches at the cursor.
C6_SymbolTokens ==
    [][Called
        => (/\ Cardinality({i \in 1..NumAlternatives :
                   alternative(i, multispace0(cursor).rest).tag = "Ok"}) <= 1
            /\ (FirstNonWs(cursor.offset) # 0
                  /\ input[FirstNonWs(cursor.offset)] \in SymbolChars)
                => (/\ result'.tag = "Ok"
                    /\ tokens' = Append(tokens, result'.out)
                    /\ result'.out.span.fragment = <<input[FirstNonWs(cursor.offset)]>>
                    /\ result'.out.span.offset = FirstNonWs(cursor.offset) - 1
                    /\ result'.out.kind = SymbolKind(input[FirstNonWs(cursor.offset)])))]_vars

C6_Witness ==
    /\ input = <<45, 97>>
    /\ Len(tokens) >= 1
    /\ tokens[1].kind = "Minus"
    /\ tokens[1].span.fragment = <<45>>

\* C8: a call that emits a token emits one of length >= 1 and leaves strictly
\* less input than it found; there are never more tokens than characters, and
\* once more calls have been made than the input has characters the last call
\* has emitted no token.
C8_Progress ==
    [][Called
        => (/\ result'.tag = "Ok"
                => (/\ Len(result'.out.span.fragment) >= 1
                    /\ Len(cursor'.fragment) < Len(cursor.fragment)
                    /\ cursor'.offset > cursor.offset)
            /\ Len(cursor'.fragment) <= Len(cursor.fragment)
            /\ Len(tokens') <= Len(input)
            /\ (calls' > Len(input) => result'.tag = "Err"))]_vars

C8_Witness ==
    /\ Len(input) = 3
    /\ Len(tokens) = 3
    /\ calls = 4
    /\ result.tag = "Err"

C10_TokensAreInputWithoutWhitespace ==
    /\ \A k \in 1..Len(tokens) :
          \A i \in 1..Len(tokens[k].span.fragment) :
              tokens[k].span.fragment[i] \notin WhitespaceChars
    /\ result.tag = "Ok"
          => (cursor.fragment = <<>> \/ Head(cursor.fragment) \notin WhitespaceChars)
    /\ (result.tag = "Err" /\ result.input.fragment = <<>>)
          => ConcatTexts(tokens) = WithoutWhitespace(input)

C10_Witness ==
    /\ input = <<32, 97, 10>>
    /\ result.tag = "Err"
    /\ result.input.fragment = <<>>
    /\ Len(tokens) = 1

====
